---------------------------- MODULE Spec2Model ----------------------------
(***************************************************************************)
(* A model of linkdepth: the round-robin frontier queue (queues.py), the   *)
(* logging scheduler (scheduler.py), the two downloader middlewares        *)
(* (middleware.py) and the DepthSpider callbacks (linkdepth.py).           *)
(*                                                                         *)
(* Specifications:                                                         *)
(*   SpecQueue      push / pop / close on RoundRobinPriorityQueue          *)
(*   SpecFair       pushes to several partitions followed by pops          *)
(*   SpecWait       push / pop with the waiting of the partitions observed *)
(*   SpecAdmission  MaxRequestsMiddleware.process_request                  *)
(*   Spec           the crawl: spider, scheduler, middlewares              *)
(***************************************************************************)
EXTENDS Integers, Sequences, FiniteSets, Bags, TLC

VARIABLES
    slots,          \* RoundRobinPriorityQueue._slots (deque of partition keys)
    pqueues,        \* RoundRobinPriorityQueue.pqueues (slot -> PriorityQueue)
    ids,            \* DiskQueue.ids (itertools.count shared by all DiskQueues)
    pushed,         \* history: requests handed to push(), in call order
    popped,         \* history: requests returned by pop(), in call order
    phase,          \* SpecFair: "push" or "pop"; elsewhere "run", and
                    \* "closed" once close() was called
    due,            \* SpecWait, history: slot in the rotation -> the number
                    \* of pop() calls left of those counted from the states
                    \* the slot has waited in
    max_requests,   \* MaxRequestsMiddleware.max_requests (0: NotConfigured)
    requests_num,   \* MaxRequestsMiddleware.requests_num
    mw_dropped,     \* stats["MaxRequestsMiddleware/dropped"]
    verdicts,       \* history: one record per process_request call
    rows,           \* the rows of the urls file, as read_urls yields them
    pos,            \* how many rows start_requests has consumed
    urls_to_check,  \* DepthSpider._urls_to_check (netloc -> set of urls)
    urls_to_find,   \* DepthSpider._urls_to_find (netloc -> set of urls)
    starts,         \* DepthSpider._starts (normalized url -> start)
    items,          \* bag of the items the callbacks yielded
    log_fp,         \* LoggingScheduler.log_fp: None, "open" or "closed"
    log,            \* bag of the records written to log_fp
    seen,           \* the dupefilter's fingerprints
    inflight,       \* bag of requests handed to the downloader
    failing,        \* bag of requests whose IgnoreRequest awaits the errback
    running,        \* bag of the callbacks suspended at a yield (frames)
    drop_dropped,   \* stats["DropRequestMiddleware/dropped"]
    accepted,       \* history: bag of requests enqueue_request accepted
    dequeued,       \* history: set of requests next_request returned
    rejected,       \* history: set of [request, by] the middlewares ignored
    reached         \* history: normalized urls of the seeds that responded

queueVars == <<slots, pqueues, ids, pushed, popped, phase>>
admVars   == <<max_requests, requests_num, mw_dropped, verdicts>>
spiderVars == <<rows, pos, urls_to_check, urls_to_find, starts, items>>
schedVars == <<log_fp, log, seen, inflight, failing, running, drop_dropped>>
histVars  == <<accepted, dequeued, rejected, reached>>
crawlVars == <<spiderVars, schedVars, histVars>>
vars      == <<queueVars, due, admVars, crawlVars>>

None == "None"

(***************************************************************************)
(* Bounds of the model.                                                    *)
(***************************************************************************)
MaxPushes    == 4     \* SpecQueue: calls of push()
MaxFairPush  == 6     \* SpecFair: calls of push()
MaxCap       == 3     \* SpecAdmission: MAX_REQUESTS_PER_NETLOC is in 0..MaxCap
MaxAdm       == 5     \* SpecAdmission: calls of process_request

(***************************************************************************)
(* DepthSpider's priorities.  The scheduler pushes with -request.priority. *)
(***************************************************************************)
PRIO_INIT   == 10000
PRIO_DOMAIN == 1000
PRIO_PAGE   == 10

Slots   == {"x", "y", "z"}
Prios   == {-PRIO_PAGE, 0}
Netlocs == {"a.com", "b.com"}

Min(S) == CHOOSE m \in S : \A n \in S : m <= n

Last(s) == s[Len(s)]

Front(s) == SubSeq(s, 1, Len(s) - 1)

(***************************************************************************)
(* queues.DiskQueue: a PickleLifoDiskQueue whose path gets a suffix from   *)
(* the class-wide counter `ids`.                                           *)
(***************************************************************************)
\* a disk queue that uses the path it is given, without the suffix
DiskQueueNoSuffix(path, n) == [path |-> <<path, 0>>, data |-> <<>>]

DiskQueue(path, n) == [path |-> <<path, n>>, data |-> <<>>]

LifoPush(q, obj) == [q EXCEPT !.data = Append(@, obj)]

\* a first-in-first-out store in place of the last-in-first-out one
FifoPop(q) == [q |-> [q EXCEPT !.data = Tail(@)], obj |-> Head(q.data)]

\* [q, obj] after obj = q.pop() (q is not empty)
LifoPop(q) == [q |-> [q EXCEPT !.data = Front(@)], obj |-> Last(q.data)]

(***************************************************************************)
(* queuelib.PriorityQueue(qfactory): a dict priority -> inner queue; an    *)
(* inner queue is created by qfactory(priority) on the first push to that  *)
(* priority and deleted when it becomes empty; pop() serves curprio, the   *)
(* smallest priority that has an inner queue.                              *)
(***************************************************************************)
PriorityQueue == <<>>

PQLen(pq) == LET RECURSIVE sum(_)
                 sum(P) == IF P = {} THEN 0
                           ELSE LET p == CHOOSE p \in P : TRUE
                                IN Len(pq[p].data) + sum(P \ {p})
             IN sum(DOMAIN pq)

curprio(pq) == Min(DOMAIN pq)

\* [pq, ids] after pq.push(obj, priority)
PQPush(pq, obj, priority, n) ==
    IF priority \in DOMAIN pq
    THEN [pq  |-> [pq EXCEPT ![priority] = LifoPush(@, obj)],
          ids |-> n]
    ELSE [pq  |-> [p \in DOMAIN pq \cup {priority} |->
                      IF p = priority
                      THEN LifoPush(DiskQueue(priority, n), obj)
                      ELSE pq[p]],
          ids |-> n + 1]

\* [pq, obj] after obj = pq.pop() (pq is not empty)
PQPop(pq) ==
    LET c == curprio(pq)
        r == LifoPop(pq[c])
    IN [pq  |-> IF Len(r.q.data) = 0
                THEN [p \in DOMAIN pq \ {c} |-> pq[p]]
                ELSE [pq EXCEPT ![c] = r.q],
        obj |-> r.obj]

(***************************************************************************)
(* RoundRobinPriorityQueue.                                                *)
(***************************************************************************)
scheduler_slot(request) ==
    IF "scheduler_slot" \in DOMAIN request.meta
    THEN request.meta.scheduler_slot
    ELSE None

\* push() that builds a new PriorityQueue for the slot on every call
RRPushRecreate(sl, pqs, n, request, priority) ==
    LET slot == scheduler_slot(request)
        sl1  == IF slot \notin DOMAIN pqs THEN Append(sl, slot) ELSE sl
        r    == PQPush(PriorityQueue, request, priority, n)
    IN [slots   |-> sl1,
        pqueues |-> [s \in DOMAIN pqs \cup {slot} |->
                        IF s = slot THEN r.pq ELSE pqs[s]],
        ids     |-> r.ids]

\* push() that puts a new slot at the head of the rotation
RRPushFront(sl, pqs, n, request, priority) ==
    LET slot == scheduler_slot(request)
        isNew == slot \notin DOMAIN pqs
        sl1  == IF isNew THEN <<slot>> \o sl ELSE sl
        old  == IF isNew THEN PriorityQueue ELSE pqs[slot]
        r    == PQPush(old, request, priority, n)
    IN [slots   |-> sl1,
        pqueues |-> [s \in DOMAIN pqs \cup {slot} |->
                        IF s = slot THEN r.pq ELSE pqs[s]],
        ids     |-> r.ids]

\* [slots, pqueues, ids] after push(request, priority)
RRPush(sl, pqs, n, request, priority) ==
    LET slot == scheduler_slot(request)
        isNew == slot \notin DOMAIN pqs
        sl1  == IF isNew THEN Append(sl, slot) ELSE sl
        old  == IF isNew THEN PriorityQueue ELSE pqs[slot]
        r    == PQPush(old, request, priority, n)
    IN [slots   |-> sl1,
        pqueues |-> [s \in DOMAIN pqs \cup {slot} |->
                        IF s = slot THEN r.pq ELSE pqs[s]],
        ids     |-> r.ids]

\* pop() that keeps the served slot in the rotation even when it is drained
RRPopKeepSlot(sl, pqs) ==
    IF sl = <<>>
    THEN [slots |-> sl, pqueues |-> pqs, out |-> <<>>]
    ELSE LET slot == Head(sl)
             r    == PQPop(pqs[slot])
         IN [slots   |-> Append(Tail(sl), slot),
             pqueues |-> [pqs EXCEPT ![slot] = r.pq],
             out     |-> <<r.obj>>]

\* pop() that serves the slot at the tail of the rotation
RRPopNewest(sl, pqs) ==
    IF sl = <<>>
    THEN [slots |-> sl, pqueues |-> pqs, out |-> <<>>]
    ELSE LET slot == Last(sl)
             r    == PQPop(pqs[slot])
         IN IF PQLen(r.pq) > 0
            THEN [slots   |-> sl,
                  pqueues |-> [pqs EXCEPT ![slot] = r.pq],
                  out     |-> <<r.obj>>]
            ELSE [slots   |-> Front(sl),
                  pqueues |-> [s \in DOMAIN pqs \ {slot} |-> pqs[s]],
                  out     |-> <<r.obj>>]

\* pop() that puts the served slot back at the head of the rotation
RRPopFront(sl, pqs) ==
    IF sl = <<>>
    THEN [slots |-> sl, pqueues |-> pqs, out |-> <<>>]
    ELSE LET slot == Head(sl)
             r    == PQPop(pqs[slot])
         IN IF PQLen(r.pq) > 0
            THEN [slots   |-> sl,
                  pqueues |-> [pqs EXCEPT ![slot] = r.pq],
                  out     |-> <<r.obj>>]
            ELSE [slots   |-> Tail(sl),
                  pqueues |-> [s \in DOMAIN pqs \ {slot} |-> pqs[s]],
                  out     |-> <<r.obj>>]

\* [slots, pqueues, out] after pop(): out is <<request>>, or <<>> when pop()
\* returns None
RRPop(sl, pqs) ==
    IF sl = <<>>
    THEN [slots |-> sl, pqueues |-> pqs, out |-> <<>>]
    ELSE LET slot == Head(sl)
             r    == PQPop(pqs[slot])
         IN IF PQLen(r.pq) > 0
            THEN [slots   |-> Append(Tail(sl), slot),
                  pqueues |-> [pqs EXCEPT ![slot] = r.pq],
                  out     |-> <<r.obj>>]
            ELSE [slots   |-> Tail(sl),
                  pqueues |-> [s \in DOMAIN pqs \ {slot} |-> pqs[s]],
                  out     |-> <<r.obj>>]

\* len(queue)
RRLen(pqs) ==
    LET RECURSIVE sum(_)
        sum(S) == IF S = {} THEN 0
                  ELSE LET s == CHOOSE s \in S : TRUE
                       IN PQLen(pqs[s]) + sum(S \ {s})
    IN sum(DOMAIN pqs)

(***************************************************************************)
(* SpecQueue: any interleaving of push, pop and close.                     *)
(***************************************************************************)
AdmIdle == /\ max_requests = 0
           /\ requests_num = [n \in Netlocs |-> 0]
           /\ mw_dropped = 0
           /\ verdicts = <<>>

CrawlIdle == /\ rows = <<>>
             /\ pos = 0
             /\ urls_to_check = [n \in Netlocs |-> {}]
             /\ urls_to_find = [n \in Netlocs |-> {}]
             /\ starts = <<>>
             /\ items = EmptyBag
             /\ log_fp = None
             /\ log = EmptyBag
             /\ seen = {}
             /\ inflight = EmptyBag
             /\ failing = EmptyBag
             /\ running = EmptyBag
             /\ drop_dropped = 0
             /\ accepted = EmptyBag
             /\ dequeued = {}
             /\ rejected = {}
             /\ reached = {}

QueueEmpty == /\ slots = <<>>
              /\ pqueues = <<>>
              /\ ids = 0
              /\ pushed = <<>>
              /\ popped = <<>>
              /\ due = <<>>

\* the dict a request is serialised to; only meta matters to the queue
QueueRequest(id, slot) ==
    [id   |-> id,
     meta |-> IF slot = None THEN [depth |-> 0]
              ELSE [depth |-> 0, scheduler_slot |-> slot]]

push(request, priority) ==
    LET r == RRPush(slots, pqueues, ids, request, priority)
    IN /\ slots' = r.slots
       /\ pqueues' = r.pqueues
       /\ ids' = r.ids
       /\ pushed' = Append(pushed, [request |-> request, priority |-> priority])

pop ==
    LET r == RRPop(slots, pqueues)
    IN /\ slots' = r.slots
       /\ pqueues' = r.pqueues
       /\ popped' = popped \o r.out
       /\ UNCHANGED ids

close ==
    /\ pqueues' = <<>>
    /\ slots' = <<>>
    /\ UNCHANGED ids

QPush ==
    /\ Len(pushed) < MaxPushes
    /\ \E slot \in {"x", "y", None}, priority \in Prios :
          push(QueueRequest(Len(pushed) + 1, slot), priority)
    /\ UNCHANGED <<popped, phase, due, admVars, crawlVars>>

QPop ==
    /\ pop
    /\ UNCHANGED <<pushed, phase, due, admVars, crawlVars>>

QClose ==
    /\ close
    /\ phase' = "closed"
    /\ UNCHANGED <<pushed, popped, due, admVars, crawlVars>>

InitQueue == QueueEmpty /\ phase = "run" /\ AdmIdle /\ CrawlIdle

NextQueue == QPush \/ QPop \/ QClose

SpecQueue == InitQueue /\ [][NextQueue]_vars

(***************************************************************************)
(* SpecFair: pushes of one priority to several partitions, then pops.      *)
(***************************************************************************)
FairPush ==
    /\ phase = "push"
    /\ Len(pushed) < MaxFairPush
    /\ \E slot \in Slots, priority \in Prios :
          /\ pushed # <<>> => priority = pushed[1].priority
          /\ push(QueueRequest(Len(pushed) + 1, slot), priority)
    /\ UNCHANGED <<popped, phase, due, admVars, crawlVars>>

FairStartPop ==
    /\ phase = "push"
    /\ pushed # <<>>
    /\ phase' = "pop"
    /\ UNCHANGED <<slots, pqueues, ids, pushed, popped, due, admVars, crawlVars>>

FairPop ==
    /\ phase = "pop"
    /\ slots # <<>>
    /\ pop
    /\ UNCHANGED <<pushed, phase, due, admVars, crawlVars>>

InitFair == QueueEmpty /\ phase = "push" /\ AdmIdle /\ CrawlIdle

NextFair == FairPush \/ FairStartPop \/ FairPop

SpecFair == InitFair /\ [][NextFair]_vars

(***************************************************************************)
(* SpecWait: any interleaving of push and pop, with the waiting of every   *)
(* partition observed.  In a state whose rotation holds n partitions each  *)
(* of them is promised a request within the next n calls of pop(); due[s]  *)
(* is what is left of the smallest promise made to s since it was last     *)
(* served.                                                                 *)
(***************************************************************************)
MaxWaitPush == 5     \* SpecWait: calls of push()

\* due after a push() that led to the rotation sl
DueAfterPush(sl) ==
    [s \in {sl[i] : i \in DOMAIN sl} |->
        IF s \in DOMAIN due THEN Min({due[s], Len(sl)}) ELSE Len(sl)]

\* due after a pop() that served the slot `served` and led to the rotation sl
DueAfterPop(sl, served) ==
    [s \in {sl[i] : i \in DOMAIN sl} |->
        IF s = served THEN Len(sl) ELSE Min({due[s] - 1, Len(sl)})]

WaitPush ==
    /\ Len(pushed) < MaxWaitPush
    /\ \E slot \in Slots : push(QueueRequest(Len(pushed) + 1, slot), 0)
    /\ due' = DueAfterPush(slots')
    /\ UNCHANGED <<popped, phase, admVars, crawlVars>>

WaitPop ==
    /\ slots # <<>>
    /\ pop
    /\ due' = DueAfterPop(slots', scheduler_slot(Last(popped')))
    /\ UNCHANGED <<pushed, phase, admVars, crawlVars>>

InitWait == QueueEmpty /\ phase = "run" /\ AdmIdle /\ CrawlIdle

NextWait == WaitPush \/ WaitPop

SpecWait == InitWait /\ [][NextWait]_vars

(***************************************************************************)
(* Properties of the frontier queue.                                       *)
(***************************************************************************)
SlotsOf(seq) == {scheduler_slot(seq[i]) : i \in DOMAIN seq}

PushedRequests == [i \in DOMAIN pushed |-> pushed[i].request]

\* how many of the first n entries of seq belong to partition s
CountSlot(seq, s, n) ==
    Cardinality({i \in 1..n : scheduler_slot(seq[i]) = s})

BagOfSeq(seq) ==
    [x \in {seq[i] : i \in DOMAIN seq} |->
        Cardinality({i \in DOMAIN seq : seq[i] = x})]

\* the places <<slot, priority, index>> of the frontier that hold a request
QueuedPlaces(pqs) ==
    UNION {UNION {{<<s, p, j>> : j \in DOMAIN pqs[s][p].data} :
                     p \in DOMAIN pqs[s]} : s \in DOMAIN pqs}

QueuedAt(pqs, pl) == pqs[pl[1]][pl[2]].data[pl[3]]

QueuedBag(pqs) ==
    [x \in {QueuedAt(pqs, pl) : pl \in QueuedPlaces(pqs)} |->
        Cardinality({pl \in QueuedPlaces(pqs) : QueuedAt(pqs, pl) = x})]

\* every pushed partition received the same number of requests
Balanced ==
    \A s, t \in SlotsOf(PushedRequests) :
        CountSlot(PushedRequests, s, Len(pushed))
            = CountSlot(PushedRequests, t, Len(pushed))

\* C3: once M requests of one priority were pushed to each of N partitions, in
\* any order, the pops serve the partitions in rounds: the k-th request
\* returned from a partition comes only after k-1 requests were returned from
\* every other partition, and after N*M pops every partition has returned
\* exactly its M requests.
C3_Fairness ==
    (phase = "pop" /\ Balanced) =>
        /\ \A i \in DOMAIN popped :
              LET s == scheduler_slot(popped[i])
                  k == CountSlot(popped, s, i)
              IN \A t \in SlotsOf(PushedRequests) \ {s} :
                    CountSlot(popped, t, i - 1) >= k - 1
        /\ Len(popped) = Len(pushed) =>
              /\ slots = <<>>
              /\ \A s \in SlotsOf(PushedRequests) :
                    CountSlot(popped, s, Len(popped))
                        = CountSlot(PushedRequests, s, Len(pushed))

C3_Witness ==
    /\ phase = "pop"
    /\ Balanced
    /\ Cardinality(SlotsOf(PushedRequests)) >= 2
    /\ Len(pushed) >= 2 * Cardinality(SlotsOf(PushedRequests))
    /\ scheduler_slot(pushed[1].request) = scheduler_slot(pushed[2].request)
    /\ Len(popped) = Len(pushed)

\* the requests a partition holds, as entries of the push history
PartitionEntries(pqs, s) ==
    {pushed[QueuedAt(pqs, pl).id] : pl \in {q \in QueuedPlaces(pqs) : q[1] = s}}

\* pop() returned r: r had the lowest priority number of its partition, and
\* among the requests of that priority Newest says which one it was
ServedInOrder(Newest) ==
    Len(popped') > Len(popped) =>
        LET r == Last(popped')
        IN \A e \in PartitionEntries(pqueues, scheduler_slot(r)) :
              /\ pushed[r.id].priority <= e.priority
              /\ (e.priority = pushed[r.id].priority /\ e.request.id # r.id)
                    => IF Newest THEN e.request.id < r.id
                       ELSE e.request.id > r.id

\* C4 as claimed: within a partition pop() returns ascending priority numbers
\* and, among equal priorities, the request pushed first (FIFO).
C4_Original == [][ServedInOrder(FALSE)]_vars

\* C4 as amended: within a partition pop() returns ascending priority numbers
\* and, among equal priorities, the request pushed last (LIFO).
C4_PriorityThenLifo == [][ServedInOrder(TRUE)]_vars

C4_Witness ==
    /\ Len(pushed) >= 3
    /\ Len(popped) = 3
    /\ \A i \in 1..3 : scheduler_slot(pushed[i].request) = "x"
    /\ pushed[1].priority = 0
    /\ pushed[2].priority = 0
    /\ pushed[3].priority = -PRIO_PAGE
    /\ popped = <<pushed[3].request, pushed[2].request, pushed[1].request>>

\* C10: while the queue has not been closed, len() is the number of pushes
\* minus the number of pops that returned a request, and the requests returned
\* together with the requests still queued are the requests pushed, each as
\* often as it was pushed.
C10_NothingLostOrDuplicated ==
    phase = "run" =>
        /\ RRLen(pqueues) = Len(pushed) - Len(popped)
        /\ RRLen(pqueues) = Cardinality(QueuedPlaces(pqueues))
        /\ BagOfSeq(popped) (+) QueuedBag(pqueues) = BagOfSeq(PushedRequests)

C10_Witness ==
    /\ phase = "run"
    /\ Len(pushed) = MaxPushes
    /\ Len(popped) = 2
    /\ Cardinality(DOMAIN pqueues) = 2
    /\ pushed[Len(pushed)].request \in DOMAIN QueuedBag(pqueues)

(***************************************************************************)
(* URLs are records [scheme, netloc, path].                                *)
(***************************************************************************)
Url(scheme, netloc, path) == [scheme |-> scheme, netloc |-> netloc, path |-> path]

get_netloc(url) == url.netloc

(***************************************************************************)
(* MaxRequestsMiddleware.                                                  *)
(***************************************************************************)
\* the key a request is counted under
request_netloc(request) ==
    IF "netloc" \in DOMAIN request.meta
    THEN request.meta.netloc
    ELSE get_netloc(request.url)

\* process_request that counts and never raises IgnoreRequest
MaxRequestsNeverRaise(num, maxr, request) ==
    LET netloc == request_netloc(request)
    IN [requests_num |-> [num EXCEPT ![netloc] = @ + 1],
        ignore       |-> FALSE]

\* [requests_num, ignore] after process_request(request); ignore says that
\* IgnoreRequest was raised
MaxRequests_process_request(num, maxr, request) ==
    LET netloc == request_netloc(request)
        num1   == [num EXCEPT ![netloc] = @ + 1]
    IN [requests_num |-> num1,
        ignore       |-> num1[netloc] >= maxr]

\* from_crawler that installs the middleware whatever the setting is
MaxRequestsAlwaysEnabled == TRUE

\* from_crawler raises NotConfigured for MAX_REQUESTS_PER_NETLOC = 0 and the
\* middleware is left out of the chain
MaxRequestsEnabled == max_requests # 0

(***************************************************************************)
(* SpecAdmission: a sequence of requests handed to process_request.        *)
(***************************************************************************)
AdmRequests ==
    {[url |-> Url("http", n, "/"), meta |-> m] :
        n \in Netlocs,
        m \in {[depth |-> 0]} \cup {[depth |-> 0, netloc |-> k] : k \in Netlocs}}

AdmProcess ==
    /\ Len(verdicts) < MaxAdm
    /\ \E request \in AdmRequests :
          IF MaxRequestsEnabled
          THEN LET r == MaxRequests_process_request(requests_num, max_requests,
                                                    request)
               IN /\ requests_num' = r.requests_num
                  /\ mw_dropped' = IF r.ignore THEN mw_dropped + 1
                                   ELSE mw_dropped
                  /\ verdicts' = Append(verdicts,
                                    [request |-> request,
                                     netloc  |-> request_netloc(request),
                                     ignored |-> r.ignore])
          ELSE /\ verdicts' = Append(verdicts,
                                 [request |-> request,
                                  netloc  |-> request_netloc(request),
                                  ignored |-> FALSE])
               /\ UNCHANGED <<requests_num, mw_dropped>>
    /\ UNCHANGED <<max_requests, queueVars, due, crawlVars>>

InitAdmission ==
    /\ QueueEmpty
    /\ CrawlIdle
    /\ phase = "run"
    /\ max_requests \in 0..MaxCap
    /\ requests_num = [n \in Netlocs |-> 0]
    /\ mw_dropped = 0
    /\ verdicts = <<>>

NextAdmission == AdmProcess

SpecAdmission == InitAdmission /\ [][NextAdmission]_vars

\* how many of the first n requests were counted under netloc
Ordinal(netloc, n) ==
    Cardinality({i \in 1..n : verdicts[i].netloc = netloc})

\* how many requests counted under netloc passed the middleware
Passed(netloc) ==
    Cardinality({i \in DOMAIN verdicts :
                    verdicts[i].netloc = netloc /\ ~verdicts[i].ignored})

\* C1: with a cap c >= 1 the first c requests of a domain are accepted and all
\* later ones are rejected.
C1_FirstCapAccepted ==
    max_requests >= 1 =>
        \A i \in DOMAIN verdicts :
            verdicts[i].ignored <=> Ordinal(verdicts[i].netloc, i) > max_requests

\* C2: with a cap configured, the requests of a domain that passed the
\* middleware are at most cap many.
C2_PassedAtMostCap ==
    max_requests >= 1 => \A n \in Netlocs : Passed(n) <= max_requests

C2_Witness ==
    /\ max_requests = MaxCap
    /\ Len(verdicts) = MaxAdm
    /\ \A i \in DOMAIN verdicts : verdicts[i].netloc = "a.com"
    /\ \E i \in DOMAIN verdicts : "netloc" \notin DOMAIN verdicts[i].request.meta
    /\ \E i \in DOMAIN verdicts : get_netloc(verdicts[i].request.url) = "b.com"
    /\ Passed("a.com") = MaxCap - 1
    /\ mw_dropped = MaxAdm - MaxCap + 1

(***************************************************************************)
(* DepthSpider.                                                            *)
(***************************************************************************)
\* add_http_if_no_scheme and canonicalize_url leave the model's urls as they
\* are; the https scheme is replaced by http
normalize_url(url) == [url EXCEPT !.scheme = "http"]

\* a record without one of its fields (dict.pop)
Without(rec, key) == [k \in DOMAIN rec \ {key} |-> rec[k]]

\* a record with one more field, or with another value of it (dict[key] = v)
With(rec, key, v) ==
    [k \in DOMAIN rec \cup {key} |-> IF k = key THEN v ELSE rec[k]]

\* the orders in which a set may be iterated
Perms(S) ==
    {f \in [1..Cardinality(S) -> S] : \A i, j \in DOMAIN f : f[i] = f[j] => i = j}

\* the request start_requests builds for a row's url
SeedRequest(url) ==
    [url         |-> url,
     callback    |-> "parse_seed",
     meta        |-> [url            |-> url,
                      netloc         |-> get_netloc(url),
                      scheduler_slot |-> get_netloc(url)],
     dont_filter |-> TRUE,
     priority    |-> PRIO_INIT]

\* [check, starts, request] after one turn of the loop of start_requests
start_requests_row(check, st, row) ==
    LET url    == row[1]
        netloc == get_netloc(url)
        norm   == normalize_url(url)
    IN [check   |-> [check EXCEPT ![netloc] = @ \cup {url}],
        starts  |-> [u \in DOMAIN st \cup {norm} |->
                        IF u = norm THEN <<row[2], row[3]>> ELSE st[u]],
        request |-> SeedRequest(url)]

\* the request maybe_start_domain_crawl builds for one start
StartRequest(start, netloc) ==
    [url         |-> start[1],
     callback    |-> "parse_domain",
     meta        |-> [request_depth  |-> start[2],
                      netloc         |-> netloc,
                      scheduler_slot |-> netloc],
     dont_filter |-> FALSE,
     priority    |-> PRIO_DOMAIN]

\* the sequences of requests maybe_start_domain_crawl(netloc) may yield: one
\* request per start of the urls to find, in any order of the set of starts
maybe_start_domain_crawl(check, find, st, netloc) ==
    IF check[netloc] # {} THEN {<<>>}
    ELSE IF find[netloc] = {} THEN {<<>>}
    ELSE {[i \in DOMAIN pairs |-> StartRequest(pairs[i], netloc)] :
             pairs \in Perms({st[url] : url \in find[netloc]})}

\* the outcomes [check, find, out] of parse_seed(response) up to the end of
\* its generator; response.meta is the request's meta
parse_seed(check, find, st, request) ==
    LET url    == request.meta.url
        netloc == request.meta.netloc
        check1 == [check EXCEPT ![netloc] = @ \ {url}]
        find1  == [find EXCEPT ![netloc] = @ \cup {normalize_url(url)}]
    IN {[check |-> check1, find |-> find1, out |-> out] :
           out \in maybe_start_domain_crawl(check1, find1, st, netloc)}

\* parse_seed_error that records the url as one to find, as parse_seed does
ParseSeedErrorAdds(check, find, st, request) ==
    LET url    == request.meta.url
        netloc == request.meta.netloc
        check1 == [check EXCEPT ![netloc] = @ \ {url}]
        find1  == [find EXCEPT ![netloc] = @ \cup {normalize_url(url)}]
    IN {[check |-> check1, find |-> find1, out |-> out] :
           out \in maybe_start_domain_crawl(check1, find1, st, netloc)}

\* the outcomes [check, find, out] of parse_seed_error(failure)
parse_seed_error(check, find, st, request) ==
    LET url    == request.meta.url
        netloc == request.meta.netloc
        check1 == [check EXCEPT ![netloc] = @ \ {url}]
    IN {[check |-> check1, find |-> find, out |-> out] :
           out \in maybe_start_domain_crawl(check1, find, st, netloc)}

\* the dict _request_info(response, url, visited) returns, without sent_at,
\* crawl, autopager and _respone_depth
request_info(find, response, url, visited) ==
    [url          |-> url,
     ground_truth |-> normalize_url(url) \in find[get_netloc(url)],
     found_at     |-> response.url,
     depth        |-> response.request.meta.request_depth
                        + (IF visited THEN 0 ELSE 1),
     priority     |-> response.request.priority,
     visited      |-> visited]

\* [find, out] after _handle_ground_truth(request_info)
handle_ground_truth(find, info) ==
    IF ~info.ground_truth
    THEN [find |-> find, out |-> <<>>]
    ELSE [find |-> [find EXCEPT ![get_netloc(info.url)] =
                        @ \ {normalize_url(info.url)}],
          out  |-> <<info>>]

\* the (url, priority) pairs _get_links yields: the pagination links, then
\* every link of the page
get_links(page_hrefs, hrefs) ==
    [i \in DOMAIN page_hrefs |-> <<page_hrefs[i], PRIO_PAGE>>]
        \o [i \in DOMAIN hrefs |-> <<hrefs[i], 0>>]

\* the request parse_domain builds for a link
LinkRequest(response, url, prio, info) ==
    [url         |-> url,
     callback    |-> "parse_domain",
     meta        |-> [netloc         |-> response.request.meta.netloc,
                      request_depth  |-> response.request.meta.request_depth + 1,
                      scheduler_slot |-> response.request.meta.netloc,
                      request_info   |-> info],
     dont_filter |-> FALSE,
     priority    |-> prio]

(***************************************************************************)
(* parse_domain is a generator: the engine takes what it yields one by one *)
(* and other callbacks may run while it is suspended at a yield.  A frame  *)
(* is a suspended parse_domain: its response, the (url, priority) pairs of *)
(* _get_links, and the yield it stopped at:                                *)
(*   "visited"  the item of the response's own url (line 148)              *)
(*   "request"  the request for link i (line 166), info being its dict     *)
(*   "item"     the item of link i (line 172)                              *)
(***************************************************************************)
DomainFrame(response, links, stage, i, info) ==
    [kind |-> "parse_domain", response |-> response, links |-> links,
     stage |-> stage, i |-> i, info |-> info]

\* nothing is left of the frame but the end of the generator
Exhausted(fr) ==
    /\ fr.i = Len(fr.links)
    /\ \/ fr.stage = "item"
       \/ fr.stage = "request" /\ ~fr.info.ground_truth

\* parse_domain run from a point of its code to its next yield or its end:
\* [find, out, frame], out being <<>> or what it yielded and frame <<>> or
\* the frame it is suspended in.  The points: "start" (line 147), "check"
\* (line 150), "top" (line 163, link i), "truth" (line 172, link i).
RECURSIVE parse_domain_run(_, _, _, _, _, _)
parse_domain_run(find, response, links, at, i, info) ==
    LET netloc == response.request.meta.netloc
        Suspend(f, y, stage, j, inf) ==
            LET fr == DomainFrame(response, links, stage, j, inf)
            IN [find  |-> f,
                out   |-> <<y>>,
                frame |-> IF Exhausted(fr) THEN <<>> ELSE <<fr>>]
        End == [find |-> find, out |-> <<>>, frame |-> <<>>]
    IN CASE at = "start" ->
              LET info0 == request_info(find, response, response.url, TRUE)
                  h     == handle_ground_truth(find, info0)
              IN IF h.out # <<>>
                 THEN [find  |-> h.find,
                       out   |-> h.out,
                       frame |-> <<DomainFrame(response, links, "visited", 0,
                                               info0)>>]
                 ELSE parse_domain_run(find, response, links, "check", 0, info0)
         [] at = "check" ->
              IF get_netloc(response.url) # netloc THEN End
              ELSE IF find[netloc] = {} THEN End
              ELSE parse_domain_run(find, response, links, "top", 1, info)
         [] at = "top" ->
              IF i > Len(links) THEN End
              ELSE LET url  == links[i][1]
                       inf  == request_info(find, response, url, FALSE)
                   IN IF get_netloc(url) = netloc
                      THEN Suspend(find,
                                   LinkRequest(response, url, links[i][2], inf),
                                   "request", i, inf)
                      ELSE parse_domain_run(find, response, links, "truth", i, inf)
         [] at = "truth" ->
              LET h == handle_ground_truth(find, info)
              IN IF h.out # <<>>
                 THEN Suspend(h.find, h.out[1], "item", i, info)
                 ELSE parse_domain_run(find, response, links, "top", i + 1, info)

\* a suspended parse_domain resumed: it runs on to its next yield or its end
parse_domain_resume(find, fr) ==
    CASE fr.stage = "visited" ->
            parse_domain_run(find, fr.response, fr.links, "check", 0, fr.info)
      [] fr.stage = "request" ->
            parse_domain_run(find, fr.response, fr.links, "truth", fr.i, fr.info)
      [] fr.stage = "item" ->
            parse_domain_run(find, fr.response, fr.links, "top", fr.i + 1, fr.info)

\* [find, out] after parse_domain(response) was run to its end with no other
\* callback in between; out holds the requests and items in the order they
\* are yielded
parse_domain(find, response, links) ==
    LET RECURSIVE rest(_, _)
        rest(r, out) ==
            IF r.frame = <<>> THEN [find |-> r.find, out |-> out \o r.out]
            ELSE rest(parse_domain_resume(r.find, r.frame[1]), out \o r.out)
    IN rest(parse_domain_run(find, response, links, "start", 0, <<>>), <<>>)

\* should_drop that does not wait for the seeds to be checked
ShouldDropUnchecked(check, find, request) ==
    IF "netloc" \notin DOMAIN request.meta THEN FALSE
    ELSE find[request.meta.netloc] = {}

\* should_drop that looks at to_check only
ShouldDropSeedsChecked(check, find, request) ==
    IF "netloc" \notin DOMAIN request.meta THEN FALSE
    ELSE check[request.meta.netloc] = {}

\* should_drop(request): TRUE, or FALSE for the None it returns otherwise
should_drop(check, find, request) ==
    LET hasNetloc == "netloc" \in DOMAIN request.meta
    IN IF ~hasNetloc THEN FALSE
       ELSE IF check[request.meta.netloc] # {} THEN FALSE
       ELSE IF find[request.meta.netloc] = {} THEN TRUE
       ELSE FALSE

(***************************************************************************)
(* DropRequestMiddleware.                                                  *)
(***************************************************************************)
\* process_request raises IgnoreRequest
DropRequest_process_request(check, find, request) ==
    should_drop(check, find, request)

(***************************************************************************)
(* LoggingScheduler.  sch is the scheduler's state: the dupefilter's       *)
(* fingerprints, the log, the disk frontier (a RoundRobinPriorityQueue of  *)
(* DiskQueues) and the history of accepted requests.                       *)
(***************************************************************************)
request_fingerprint(request) == request.url

\* the test "self.log_fp" of log_request: the log was opened (a closed file
\* object is still true)
log_on == log_fp # None

\* log_request that reads request_info with get() and leaves it in meta
LogRequestKeepInfo(logon, lg, request) ==
    IF ~logon THEN [log |-> lg, request |-> request]
    ELSE IF "request_info" \notin DOMAIN request.meta
    THEN [log |-> lg, request |-> request]
    ELSE IF DOMAIN request.meta.request_info = {}
    THEN [log |-> lg, request |-> request]
    ELSE [log     |-> lg (+) SetToBag({request.meta.request_info}),
          request |-> request]

\* log_request that pops request_info and writes nothing
LogRequestNoWrite(logon, lg, request) ==
    IF ~logon THEN [log |-> lg, request |-> request]
    ELSE IF "request_info" \notin DOMAIN request.meta
    THEN [log |-> lg, request |-> request]
    ELSE [log     |-> lg,
          request |-> [request EXCEPT !.meta = Without(@, "request_info")]]

\* [log, request] after log_request(request): nothing happens without a log;
\* otherwise request_info is popped from meta and, unless it is missing or
\* empty, written to the log
log_request(logon, lg, request) ==
    IF ~logon THEN [log |-> lg, request |-> request]
    ELSE IF "request_info" \notin DOMAIN request.meta
    THEN [log |-> lg, request |-> request]
    ELSE LET info   == request.meta.request_info
             popped1 == [request EXCEPT !.meta = Without(@, "request_info")]
         IN IF DOMAIN info = {}
            THEN [log |-> lg, request |-> popped1]
            ELSE [log     |-> lg (+) SetToBag({info}),
                  request |-> popped1]

\* enqueue_request that logs the request before asking the dupefilter
EnqueueLogsFirst(logon, sch, request) ==
    LET l == log_request(logon, sch.log, request)
    IN IF ~request.dont_filter /\ request_fingerprint(request) \in sch.seen
       THEN [sch EXCEPT !.log = l.log, !.ok = FALSE]
       ELSE LET q == RRPush(sch.slots, sch.pqueues, sch.ids, l.request,
                            -request.priority)
            IN [seen     |-> IF request.dont_filter THEN sch.seen
                             ELSE sch.seen \cup {request_fingerprint(request)},
                log      |-> l.log,
                slots    |-> q.slots,
                pqueues  |-> q.pqueues,
                ids      |-> q.ids,
                accepted |-> sch.accepted (+) SetToBag({request}),
                ok       |-> TRUE]

\* sch after enqueue_request(request); ok is what it returns
enqueue_request(logon, sch, request) ==
    IF ~request.dont_filter /\ request_fingerprint(request) \in sch.seen
    THEN [sch EXCEPT !.ok = FALSE]
    ELSE LET l == log_request(logon, sch.log, request)
             q == RRPush(sch.slots, sch.pqueues, sch.ids, l.request,
                         -request.priority)
         IN [seen     |-> IF request.dont_filter THEN sch.seen
                          ELSE sch.seen \cup {request_fingerprint(request)},
             log      |-> l.log,
             slots    |-> q.slots,
             pqueues  |-> q.pqueues,
             ids      |-> q.ids,
             accepted |-> sch.accepted (+) SetToBag({request}),
             ok       |-> TRUE]

\* the request object as enqueue_request(request) leaves it
enqueued_request(logon, sch, request) ==
    IF ~request.dont_filter /\ request_fingerprint(request) \in sch.seen
    THEN request
    ELSE log_request(logon, sch.log, request).request

Sched == [seen |-> seen, log |-> log, slots |-> slots, pqueues |-> pqueues,
          ids |-> ids, accepted |-> accepted, ok |-> TRUE]

SetSched(sch) ==
    /\ seen' = sch.seen
    /\ log' = sch.log
    /\ slots' = sch.slots
    /\ pqueues' = sch.pqueues
    /\ ids' = sch.ids
    /\ accepted' = sch.accepted

(***************************************************************************)
(* The engine.  What is yielded for a response, by its callback or, when   *)
(* the response is refused as an HTTP error, by its errback, passes the    *)
(* spider middlewares, of which DepthMiddleware changes requests, and is   *)
(* handed on one by one: requests to the scheduler, items to the feed.     *)
(* What an errback yields for a request that got no response (a download   *)
(* error, an IgnoreRequest) and what start_requests yields does not pass   *)
(* DepthMiddleware.                                                        *)
(***************************************************************************)
DEPTH_PRIORITY == 1

\* response.meta['depth'], which DepthMiddleware takes as 0 when missing
response_depth(request) ==
    IF "depth" \in DOMAIN request.meta THEN request.meta.depth ELSE 0

\* DepthMiddleware on one element y the callback of request yielded: a
\* request is one level deeper than the response, and its priority is
\* lowered by depth * DEPTH_PRIORITY
DepthMiddleware(request, y) ==
    IF "callback" \notin DOMAIN y THEN y
    ELSE LET depth == response_depth(request) + 1
         IN [y EXCEPT !.meta = With(@, "depth", depth),
                      !.priority = @ - depth * DEPTH_PRIORITY]

\* the next element a generator with out left to yield yields, if any
First(out) == IF out = <<>> THEN <<>> ELSE <<out[1]>>

\* what the engine receives of out, yielded for request: through the spider
\* middlewares (mw) when there was a response, as it is otherwise
Yielded(request, mw, out) ==
    [i \in DOMAIN out |-> IF mw THEN DepthMiddleware(request, out[i])
                          ELSE out[i]]

\* [sch, items] after the engine has consumed out
Deliver(logon, sch0, items0, out) ==
    LET RECURSIVE go(_, _, _)
        go(sch, its, i) ==
            IF i > Len(out) THEN [sch |-> sch, items |-> its]
            ELSE IF "callback" \in DOMAIN out[i]
            THEN go(enqueue_request(logon, sch, out[i]), its, i + 1)
            ELSE go(sch, its (+) SetToBag({out[i]}), i + 1)
    IN go(sch0, items0, 1)

\* [check, starts, sch] after start_requests has run its loop over rows i..j
RegisterRows(logon, check0, st0, sch0, i, j) ==
    LET RECURSIVE go(_, _, _, _)
        go(check, st, sch, k) ==
            IF k > j THEN [check |-> check, starts |-> st, sch |-> sch]
            ELSE LET r == start_requests_row(check, st, rows[k])
                 IN go(r.check, r.starts,
                       enqueue_request(logon, sch, r.request), k + 1)
    IN go(check0, st0, sch0, i)

\* parse_seed or parse_seed_error suspended in the loop over
\* maybe_start_domain_crawl: out is what is left to yield
SeedFrame(request, mw, out) ==
    [kind |-> "seed", request |-> request, mw |-> mw, out |-> out]

(***************************************************************************)
(* Spec: the crawl.                                                        *)
(***************************************************************************)
MaxRows   == 2     \* rows of the urls file
MaxLinks  == 2     \* links of one page
CrawlCap  == 5     \* MAX_REQUESTS_PER_NETLOC (--limit)
MaxActive == 2     \* requests in progress: downloading or in a callback

A0  == Url("http", "a.com", "/")
A1  == Url("http", "a.com", "/1")
A1s == Url("https", "a.com", "/1")
A2  == Url("http", "a.com", "/2")
B1  == Url("http", "b.com", "/1")
B1s == Url("https", "b.com", "/1")

\* rows (url, start, start_depth) an urls file is made of
SeedRows == {<<A1, A0, 0>>, <<A2, A0, 0>>, <<A2, A2, 1>>, <<B1s, B1s, 1>>}

SeqsUpTo(S, n) == UNION {[1..k -> S] : k \in 0..n}

\* the urls the links of a page point to
LinkUrls == {A1s, A2, B1}

\* the pagination links autopager may select among the links of a page
\* (none with --bfs)
PageHrefs(hrefs) ==
    {<<>>} \cup {<<A2>> : i \in {j \in DOMAIN hrefs : hrefs[j] = A2}}

\* the url of the response to a request (no redirects)
ResponseUrls(request) == {request.url}

\* the engine's first next() of start_requests: the spider is open, so
\* _force_crawl hands every request to engine.crawl and the loop runs over
\* all the rows without yielding
StartRequests ==
    /\ phase = "run"
    /\ pos < Len(rows)
    /\ LET r == RegisterRows(log_on, urls_to_check, starts, Sched, pos + 1,
                             Len(rows))
       IN /\ pos' = Len(rows)
          /\ urls_to_check' = r.check
          /\ starts' = r.starts
          /\ SetSched(r.sch)
    /\ UNCHANGED <<rows, urls_to_find, items, log_fp, inflight, failing,
                   running, drop_dropped, dequeued, rejected, reached>>
    /\ UNCHANGED <<pushed, popped, phase, due, admVars>>

\* the engine takes the next request from the scheduler and hands it to the
\* downloader middlewares: MaxRequestsMiddleware (650), DropRequestMiddleware
\* (651); a request with an errback gets it called for an IgnoreRequest
NextRequest ==
    /\ phase = "run"
    /\ slots # <<>>
    /\ BagCardinality(inflight) + BagCardinality(failing)
           + BagCardinality(running) < MaxActive
    /\ LET r       == RRPop(slots, pqueues)
           request == r.out[1]
           m       == IF MaxRequestsEnabled
                      THEN MaxRequests_process_request(requests_num,
                                                       max_requests, request)
                      ELSE [requests_num |-> requests_num, ignore |-> FALSE]
           drop    == ~m.ignore /\ DropRequest_process_request(
                                       urls_to_check, urls_to_find, request)
           ignored == m.ignore \/ drop
       IN /\ slots' = r.slots
          /\ pqueues' = r.pqueues
          /\ dequeued' = dequeued \cup {request}
          /\ requests_num' = m.requests_num
          /\ mw_dropped' = IF m.ignore THEN mw_dropped + 1 ELSE mw_dropped
          /\ drop_dropped' = IF drop THEN drop_dropped + 1 ELSE drop_dropped
          /\ rejected' = IF m.ignore
                         THEN rejected \cup {[request |-> request,
                                              by |-> "MaxRequestsMiddleware"]}
                         ELSE IF drop
                         THEN rejected \cup {[request |-> request,
                                              by |-> "DropRequestMiddleware"]}
                         ELSE rejected
          /\ inflight' = IF ignored THEN inflight
                         ELSE inflight (+) SetToBag({request})
          /\ failing' = IF ignored /\ request.callback = "parse_seed"
                        THEN failing (+) SetToBag({request})
                        ELSE failing
    /\ UNCHANGED <<ids, pushed, popped, phase, due, max_requests, verdicts>>
    /\ UNCHANGED <<spiderVars, log_fp, log, seen, running, accepted, reached>>

\* a step of a callback: the tracker's sets as it leaves them and what it
\* yielded, as the engine receives it
Callback(check, find, out) ==
    LET d == Deliver(log_on, Sched, items, out)
    IN /\ urls_to_check' = check
       /\ urls_to_find' = find
       /\ SetSched(d.sch)
       /\ items' = d.items
       /\ UNCHANGED <<rows, pos, starts, log_fp, drop_dropped, dequeued,
                      rejected>>
       /\ UNCHANGED <<pushed, popped, phase, due, admVars>>

\* parse_seed or parse_seed_error from its call to its first yield or its
\* end: r is [check, find, out], of which the first of out is yielded now
SeedCallback(request, mw, r) ==
    /\ Callback(r.check, r.find, Yielded(request, mw, First(r.out)))
    /\ running' = IF Len(r.out) > 1
                  THEN running (+) SetToBag({SeedFrame(request, mw, Tail(r.out))})
                  ELSE running

SeedResponse ==
    /\ phase = "run"
    /\ \E request \in BagToSet(inflight) :
        /\ request.callback = "parse_seed"
        /\ inflight' = inflight (-) SetToBag({request})
        /\ \E r \in parse_seed(urls_to_check, urls_to_find, starts, request) :
              SeedCallback(request, TRUE, r)
        /\ reached' = reached \cup {normalize_url(request.meta.url)}
        /\ UNCHANGED failing

\* the download of a seed request failed: there is no response, and what the
\* errback yields goes to the engine as it is
SeedFailure ==
    /\ phase = "run"
    /\ \E request \in BagToSet(inflight) :
        /\ request.callback = "parse_seed"
        /\ inflight' = inflight (-) SetToBag({request})
        /\ \E r \in parse_seed_error(urls_to_check, urls_to_find, starts, request) :
              SeedCallback(request, FALSE, r)
        /\ UNCHANGED <<failing, reached>>

\* a seed request is answered with a response that is not 2xx: HttpError is
\* raised for the response on its way to the spider, the errback is called in
\* place of the callback and its output passes the spider middlewares
SeedHttpError ==
    /\ phase = "run"
    /\ \E request \in BagToSet(inflight) :
        /\ request.callback = "parse_seed"
        /\ inflight' = inflight (-) SetToBag({request})
        /\ \E r \in parse_seed_error(urls_to_check, urls_to_find, starts, request) :
              SeedCallback(request, TRUE, r)
        /\ UNCHANGED <<failing, reached>>

\* the errback of a seed request a middleware ignored
SeedIgnored ==
    /\ phase = "run"
    /\ \E request \in BagToSet(failing) :
        /\ failing' = failing (-) SetToBag({request})
        /\ \E r \in parse_seed_error(urls_to_check, urls_to_find, starts, request) :
              SeedCallback(request, FALSE, r)
        /\ UNCHANGED <<inflight, reached>>

\* a suspended parse_seed or parse_seed_error yields its next start request
ResumeSeed ==
    /\ phase = "run"
    /\ \E fr \in BagToSet(running) :
        /\ fr.kind = "seed"
        /\ Callback(urls_to_check, urls_to_find,
                    Yielded(fr.request, fr.mw, First(fr.out)))
        /\ running' = (running (-) SetToBag({fr}))
                          (+) (IF Len(fr.out) > 1
                               THEN SetToBag({SeedFrame(fr.request, fr.mw,
                                                        Tail(fr.out))})
                               ELSE EmptyBag)
    /\ UNCHANGED <<inflight, failing, reached>>

\* parse_domain from its call to its first yield or its end
DomainResponse ==
    /\ phase = "run"
    /\ \E request \in BagToSet(inflight) :
        /\ request.callback = "parse_domain"
        /\ inflight' = inflight (-) SetToBag({request})
        /\ \E hrefs \in SeqsUpTo(LinkUrls, MaxLinks), url \in ResponseUrls(request) :
           \E page_hrefs \in PageHrefs(hrefs) :
              LET response == [url |-> url, request |-> request]
                  r == parse_domain_run(urls_to_find, response,
                                        get_links(page_hrefs, hrefs),
                                        "start", 0, <<>>)
              IN /\ Callback(urls_to_check, r.find,
                             Yielded(request, TRUE, r.out))
                 /\ running' = IF r.frame = <<>> THEN running
                               ELSE running (+) SetToBag({r.frame[1]})
        /\ UNCHANGED <<failing, reached>>

\* a suspended parse_domain runs on to its next yield or its end
ResumeDomain ==
    /\ phase = "run"
    /\ \E fr \in BagToSet(running) :
        /\ fr.kind = "parse_domain"
        /\ LET r == parse_domain_resume(urls_to_find, fr)
           IN /\ Callback(urls_to_check, r.find,
                          Yielded(fr.response.request, TRUE, r.out))
              /\ running' = (running (-) SetToBag({fr}))
                                (+) (IF r.frame = <<>> THEN EmptyBag
                                     ELSE SetToBag({r.frame[1]}))
    /\ UNCHANGED <<inflight, failing, reached>>

\* the download of an exploratory request failed, or its response is not
\* 2xx: it has no errback
DomainFailure ==
    /\ phase = "run"
    /\ \E request \in BagToSet(inflight) :
        /\ request.callback = "parse_domain"
        /\ inflight' = inflight (-) SetToBag({request})
    /\ UNCHANGED <<failing, running, queueVars, due, admVars, spiderVars,
                   log_fp, log, seen, drop_dropped, accepted, dequeued,
                   rejected, reached>>

\* LoggingScheduler.close(reason), which the engine calls once no request is
\* in progress: the log is closed, then Scheduler.close closes the frontier
SchedulerClose ==
    /\ phase = "run"
    /\ inflight = EmptyBag
    /\ failing = EmptyBag
    /\ running = EmptyBag
    /\ log_fp' = IF log_fp = "open" THEN "closed" ELSE log_fp
    /\ close
    /\ phase' = "closed"
    /\ UNCHANGED <<pushed, popped, due, admVars, spiderVars, log, seen,
                   inflight, failing, running, drop_dropped, histVars>>

Init ==
    /\ QueueEmpty
    /\ phase = "run"
    /\ max_requests = CrawlCap
    /\ requests_num = [n \in Netlocs |-> 0]
    /\ mw_dropped = 0
    /\ verdicts = <<>>
    /\ rows \in SeqsUpTo(SeedRows, MaxRows) \ {<<>>}
    /\ pos = 0
    /\ urls_to_check = [n \in Netlocs |-> {}]
    /\ urls_to_find = [n \in Netlocs |-> {}]
    /\ starts = <<>>
    /\ items = EmptyBag
    /\ log_fp \in {None, "open"}
    /\ log = EmptyBag
    /\ seen = {}
    /\ inflight = EmptyBag
    /\ failing = EmptyBag
    /\ running = EmptyBag
    /\ drop_dropped = 0
    /\ accepted = EmptyBag
    /\ dequeued = {}
    /\ rejected = {}
    /\ reached = {}

Next ==
    \/ StartRequests
    \/ NextRequest
    \/ SeedResponse
    \/ SeedFailure
    \/ SeedHttpError
    \/ SeedIgnored
    \/ ResumeSeed
    \/ DomainResponse
    \/ ResumeDomain
    \/ DomainFailure
    \/ SchedulerClose

Spec == Init /\ [][Next]_vars

(***************************************************************************)
(* Properties of the crawl.                                                *)
(***************************************************************************)
\* the requests of the frontier
Queued == {QueuedAt(pqueues, pl) : pl \in QueuedPlaces(pqueues)}

\* a request of a domain, and a request without one
ProbeRequests ==
    {[url |-> A0, meta |-> [depth |-> 0]]}
        \cup {[url |-> A0, meta |-> [depth |-> 0, netloc |-> n]] : n \in Netlocs}

GateMatches ==
    \A request \in ProbeRequests \cup Queued :
        should_drop(urls_to_check, urls_to_find, request)
            <=> /\ "netloc" \in DOMAIN request.meta
                /\ urls_to_check[request.meta.netloc] = {}
                /\ urls_to_find[request.meta.netloc] = {}

\* the step hands the next request of the frontier to the middlewares
Dequeues == phase' = "run" /\ RRLen(pqueues') < RRLen(pqueues)

\* C5: should_drop(request) is true exactly for a request with a domain whose
\* to_check and to_find are both empty, and DropRequestMiddleware ignores a
\* request (counting it as dropped) exactly when should_drop is true of it.
C5_CompletionGate ==
    [][/\ GateMatches
       /\ GateMatches'
       /\ (Dequeues /\ mw_dropped' = mw_dropped) =>
             LET request == RRPop(slots, pqueues).out[1]
                 netloc  == request.meta.netloc
             IN /\ drop_dropped' = drop_dropped + 1
                    <=> (urls_to_check[netloc] = {} /\ urls_to_find[netloc] = {})
                /\ drop_dropped' = drop_dropped
                    <=> inflight' = inflight (+) SetToBag({request})
       /\ ~Dequeues => drop_dropped' = drop_dropped]_vars

C5_Witness ==
    /\ drop_dropped >= 1
    /\ \E e \in rejected :
          e.by = "DropRequestMiddleware" /\ e.request.callback = "parse_domain"
    /\ \E request \in BagToSet(inflight) :
          /\ request.callback = "parse_domain"
          /\ urls_to_find[request.meta.netloc] # {}

\* should_drop for the requests of domain d
Drops(check, find, d) == should_drop(check, find, [meta |-> [netloc |-> d]])

\* the step ends the download of a request with this callback
Answers(callback) ==
    \E request \in BagToSet(inflight) :
        /\ request.callback = callback
        /\ inflight' = inflight (-) SetToBag({request})

\* the step calls the errback of a request a middleware ignored
AnswersIgnored ==
    \E request \in BagToSet(failing) :
        failing' = failing (-) SetToBag({request})

\* the step resumes a suspended callback of this kind
Resumes(kind) ==
    \E fr \in BagToSet(running) :
        /\ fr.kind = kind
        /\ CopiesIn(fr, running') < CopiesIn(fr, running)

\* C6 as claimed: should_drop of a domain changes from false to true exactly
\* when the domain's to_find becomes empty, and never changes back.  Stated
\* for the steps after start_requests has registered every row.
C6_Original ==
    [][pos = Len(rows) => \A d \in Netlocs :
          LET before == Drops(urls_to_check, urls_to_find, d)
              after  == Drops(urls_to_check', urls_to_find', d)
          IN /\ (~before /\ after)
                    <=> (urls_to_find[d] # {} /\ urls_to_find'[d] = {})
             /\ before => after]_vars

\* C6 as amended: should_drop of a domain changes from false to true exactly
\* when the last of to_check and to_find becomes empty: parse_domain discards
\* the last sought url while to_check is empty, or parse_seed_error removes
\* the last url to check while to_find is empty.  It changes back to false
\* only when start_requests registers a seed of the domain or parse_seed adds
\* a seed to to_find; parse_domain and parse_seed_error never change it back.
C6_DropTransitions ==
    [][\A d \in Netlocs :
          LET before == Drops(urls_to_check, urls_to_find, d)
              after  == Drops(urls_to_check', urls_to_find', d)
          IN /\ (~before /\ after)
                    <=> \/ /\ urls_to_find[d] # {}
                           /\ urls_to_find'[d] = {}
                           /\ urls_to_check'[d] = {}
                        \/ /\ urls_to_check[d] # {}
                           /\ urls_to_check'[d] = {}
                           /\ urls_to_find'[d] = {}
             /\ (~before /\ after)
                    => \/ /\ Answers("parse_domain") \/ Resumes("parse_domain")
                          /\ urls_to_check[d] = {}
                          /\ urls_to_find[d] # {}
                       \/ /\ Answers("parse_seed") \/ AnswersIgnored
                          /\ urls_to_find[d] = {}
                          /\ urls_to_check[d] # {}
             /\ (before /\ ~after)
                    => \/ pos' > pos /\ urls_to_check'[d] # {}
                       \/ /\ Answers("parse_seed")
                          /\ urls_to_check'[d] = {}
                          /\ urls_to_find'[d] # {}]_vars

C6_Witness ==
    /\ pos = Len(rows)
    /\ Drops(urls_to_check, urls_to_find, "a.com")
    /\ ~Drops(urls_to_check, urls_to_find, "b.com")
    /\ \E i \in BagToSet(items) : get_netloc(i.url) = "a.com"
    /\ \E e \in rejected :
          e.by = "DropRequestMiddleware" /\ e.request.meta.netloc = "a.com"

\* how many items report the normalized url n as found
FoundCount(n) ==
    LET hits == {i \in BagToSet(items) : i.ground_truth /\ normalize_url(i.url) = n}
        RECURSIVE sum(_)
        sum(S) == IF S = {} THEN 0
                  ELSE LET i == CHOOSE i \in S : TRUE
                       IN CopiesIn(i, items) + sum(S \ {i})
    IN sum(hits)

\* C7: over the whole crawl at most one 'found' item is yielded for each
\* normalized target url.
C7_FoundAtMostOnce ==
    \A n \in DOMAIN starts : FoundCount(n) <= 1

\* the sum of the copies in bag B of the elements of S
Copies(B, S) ==
    LET RECURSIVE sum(_)
        sum(T) == IF T = {} THEN 0
                  ELSE LET x == CHOOSE x \in T : TRUE
                       IN CopiesIn(x, B) + sum(T \ {x})
    IN sum(S)

\* the RequestInfo of the accepted requests, each as often as it was accepted
AcceptedInfos ==
    LET reqs == {r \in BagToSet(accepted) : "request_info" \in DOMAIN r.meta}
    IN [i \in {r.meta.request_info : r \in reqs} |->
           Copies(accepted, {r \in reqs : r.meta.request_info = i})]

LoggedOnce ==
    /\ log = AcceptedInfos
    /\ \A request \in Queued : "request_info" \notin DOMAIN request.meta

\* a request whose RequestInfo is empty
EmptyInfoRequest ==
    [url |-> A0, callback |-> "parse_domain",
     meta |-> [netloc |-> "a.com", request_info |-> <<>>],
     dont_filter |-> FALSE, priority |-> 0]

\* log_request takes an empty RequestInfo off the request and writes nothing
EmptyInfoUnlogged ==
    LET r == log_request(TRUE, log, EmptyInfoRequest)
    IN /\ r.log = log
       /\ "request_info" \notin DOMAIN r.request.meta

\* C8 as claimed: every accepted request with a RequestInfo has exactly one
\* record in the log and is queued without it; the others have no record.
C8_Original == LoggedOnce

\* C8 as amended: with the log open (SCHEDULER_PUSH_LOG set) every accepted
\* request with a non-empty RequestInfo has exactly one record in the log and
\* is queued without it, and the others have no record (an empty RequestInfo
\* is taken off the request and not written); with no log configured nothing
\* is written and the queued requests are the accepted ones, RequestInfo
\* included.
C8_LoggedOnceWhenOpen ==
    /\ log_on => LoggedOnce
    /\ EmptyInfoUnlogged
    /\ ~log_on => /\ log = EmptyBag
                  /\ Queued \subseteq BagToSet(accepted)

C8_Witness ==
    /\ log_on
    /\ BagCardinality(log) >= 2
    /\ \E request \in Queued :
          /\ request.callback = "parse_domain"
          /\ request.meta.depth = 2
          /\ request.priority = 0 - 2 * DEPTH_PRIORITY
          /\ \E i \in BagToSet(log) : i.url = request.url
    /\ \E request \in BagToSet(accepted) :
          /\ request.callback = "parse_seed"
          /\ \A i \in BagToSet(log) : i.url # request.url

\* the request as enqueue_request queues it
AsQueued(request) == log_request(log_on, EmptyBag, request).request

\* C9 as claimed, its part about the log: a request that
\* MaxRequestsMiddleware or DropRequestMiddleware rejects has no record in
\* the log.
C9_Original ==
    \A e \in rejected : \A i \in BagToSet(log) : i.url # e.request.url

\* C9 as amended: a record is written when enqueue_request accepts the request
\* past the deduplication check; the two middlewares see a request only after
\* it was taken from the frontier.  So every request they reject was accepted
\* by enqueue_request and taken from the frontier, and its RequestInfo, if it
\* had one and the log is open, is in the log.
C9_RejectedAfterDequeue ==
    \A e \in rejected :
        /\ e.request \in dequeued
        /\ \E a \in BagToSet(accepted) :
              /\ AsQueued(a) = e.request
              /\ ("request_info" \in DOMAIN a.meta /\ log_on)
                    => BagIn(a.meta.request_info, log)

C9_Witness ==
    /\ log_on
    /\ \E e \in rejected :
          /\ e.by = "MaxRequestsMiddleware"
          /\ \E i \in BagToSet(log) : i.url = e.request.url
    /\ \E e \in rejected :
          /\ e.by = "DropRequestMiddleware"
          /\ \E i \in BagToSet(log) : i.url = e.request.url

\* the exploratory (domain-crawl) requests of domain d among the requests of B
Exploratory(B, d) ==
    {r \in BagToSet(B) : /\ r.callback = "parse_domain"
                         /\ "request_info" \notin DOMAIN r.meta
                         /\ r.meta.netloc = d}

\* a seed of domain d was registered
HasSeeds(d) == \E u \in DOMAIN starts : get_netloc(u) = d

\* the seeds of domain d that responded, by their normalized urls
Reached(d) == {u \in reached : get_netloc(u) = d}

\* the seed requests among the requests of B
SeedRequests(B) == {r \in BagToSet(B) : r.callback = "parse_seed"}

\* the step answers a seed request of domain d, by response or by failure
AnswersSeed(d) ==
    \/ \E request \in SeedRequests(inflight) :
          /\ request.meta.netloc = d
          /\ inflight' = inflight (-) SetToBag({request})
    \/ \E request \in SeedRequests(failing) :
          /\ request.meta.netloc = d
          /\ failing' = failing (-) SetToBag({request})

\* what maybe_start_domain_crawl(d) may yield, called at the end of the step's
\* callback: one sequence per order of iteration
Emitted(d) ==
    maybe_start_domain_crawl(urls_to_check', urls_to_find', starts', d)

\* the step has an exploratory request of domain d emitted: the first of a
\* call of maybe_start_domain_crawl, or the next one of a suspended call
Emits(d) ==
    \/ AnswersSeed(d) /\ Emitted(d) # {<<>>}
    \/ \E fr \in BagToSet(running) :
          /\ fr.kind = "seed"
          /\ fr.request.meta.netloc = d
          /\ CopiesIn(fr, running') < CopiesIn(fr, running)

\* C11: an exploratory request of a domain is emitted only in a state where
\* the domain's to_check is empty and its to_find is not, and a domain whose
\* seed validation has finished with to_find empty, none of its seeds having
\* responded, gets no exploratory request emitted.
C11_StartOnlyWithSeeds ==
    [][\A d \in Netlocs :
          /\ Emits(d) => (urls_to_check'[d] = {} /\ urls_to_find'[d] # {})
          /\ (/\ pos = Len(rows)
              /\ HasSeeds(d)
              /\ urls_to_check[d] = {}
              /\ urls_to_find[d] = {}
              /\ Reached(d) = {}) => ~Emits(d)]_vars

\* C12: every partition key in the rotation has a partition queue, and that
\* queue holds at least one request.
C12_RotationNonEmpty ==
    \A i \in DOMAIN slots :
        /\ slots[i] \in DOMAIN pqueues
        /\ PQLen(pqueues[slots[i]]) >= 1
        /\ \E pl \in QueuedPlaces(pqueues) : pl[1] = slots[i]

C12_Witness ==
    /\ phase = "run"
    /\ Len(slots) = 2
    /\ Len(popped) = 2
    /\ scheduler_slot(popped[1]) # scheduler_slot(popped[2])
    /\ \E i \in DOMAIN slots : PQLen(pqueues[slots[i]]) = 1

\* the requests successive calls of pop() return until the rotation is empty
RECURSIVE Drain(_, _)
Drain(sl, pqs) ==
    IF sl = <<>> THEN <<>>
    ELSE LET r == RRPop(sl, pqs)
         IN r.out \o Drain(r.slots, r.pqueues)

SlotSeq(seq) == [i \in DOMAIN seq |-> scheduler_slot(seq[i])]

\* four requests were pushed and none popped: three to x, the first of them
\* before the one to y
ThreeAndOne ==
    /\ phase = "run"
    /\ popped = <<>>
    /\ Len(pushed) = 4
    /\ scheduler_slot(pushed[1].request) = "x"
    /\ CountSlot(PushedRequests, "x", 4) = 3
    /\ CountSlot(PushedRequests, "y", 4) = 1

\* C13: pop() on a non-empty rotation serves the partition at the head of the
\* rotation, then moves it to the tail if it still holds requests and removes
\* it from the rotation and from the partition map otherwise; push() appends
\* a partition that is absent to the tail and leaves the rotation alone
\* otherwise.  Partitions {x: 3, y: 1}, x pushed first, pop as x, y, x, x.
C13_HeadServedThenTail ==
    [][/\ Len(popped') > Len(popped) =>
             LET slot == Head(slots)
             IN /\ scheduler_slot(Last(popped')) = slot
                /\ IF PQLen(pqueues[slot]) > 1
                   THEN /\ slots' = Append(Tail(slots), slot)
                        /\ slot \in DOMAIN pqueues'
                        /\ PQLen(pqueues'[slot]) = PQLen(pqueues[slot]) - 1
                   ELSE /\ slots' = Tail(slots)
                        /\ slot \notin DOMAIN pqueues'
                /\ \A s \in DOMAIN pqueues \ {slot} :
                      s \in DOMAIN pqueues' /\ pqueues'[s] = pqueues[s]
       /\ (slots = <<>> /\ phase' = phase /\ pushed' = pushed) =>
             /\ popped' = popped
             /\ slots' = slots
       /\ Len(pushed') > Len(pushed) =>
             LET slot == scheduler_slot(Last(pushed').request)
             IN slots' = IF slot \in DOMAIN pqueues THEN slots
                         ELSE Append(slots, slot)
       /\ ThreeAndOne' =>
             SlotSeq(Drain(slots', pqueues')) = <<"x", "y", "x", "x">>]_vars

C13_Witness ==
    /\ phase = "run"
    /\ Len(pushed) = 4
    /\ SlotSeq(PushedRequests) = <<"x", "x", "y", "x">>
    /\ SlotSeq(popped) = <<"x", "y", "x", "x">>
    /\ slots = <<>>

\* C14: a partition that holds a request in a state whose rotation contains n
\* partitions is served within the next n calls of pop(), whatever is pushed
\* in between: no partition of the rotation has used up the calls it was
\* promised, and a partition whose promise is down to one call is at the head
\* of the rotation.
C14_ServedWithinRotation ==
    /\ DOMAIN due = {slots[i] : i \in DOMAIN slots}
    /\ \A s \in DOMAIN due :
          /\ due[s] >= 1
          /\ due[s] <= Len(slots)
          /\ due[s] = 1 => Head(slots) = s

C14_Witness ==
    /\ Len(slots) = 2
    /\ Len(popped) >= 1
    /\ \E s \in DOMAIN due :
          /\ due[s] = 1
          /\ s \notin SlotsOf(popped)
          /\ \E t \in DOMAIN pqueues \ {s} : PQLen(pqueues[t]) >= 3

\* the tracker's sets r are those of the current state with the url of the
\* seed request removed from to_check of its domain and, if reachable, its
\* normalized form added to to_find of its domain; nothing else differs
SeedValidated(r, request, reachable) ==
    LET url == request.url
        d   == get_netloc(url)
    IN /\ r.check[d] = urls_to_check[d] \ {url}
       /\ r.find[d] = IF reachable
                      THEN urls_to_find[d] \cup {[url EXCEPT !.scheme = "http"]}
                      ELSE urls_to_find[d]
       /\ \A e \in Netlocs \ {d} :
             r.check[e] = urls_to_check[e] /\ r.find[e] = urls_to_find[e]

\* C15: for a seed request whose answer is due, parse_seed removes the url
\* from to_check of its domain and adds its normalized form to to_find of the
\* domain, parse_seed_error removes it from to_check and leaves to_find as it
\* is, neither changes the sets of another domain, and the step that answers
\* the request leaves the tracker as one of the two does.
C15_SeedValidation ==
    [][/\ \A request \in SeedRequests(inflight) \cup SeedRequests(failing) :
             /\ \A r \in parse_seed(urls_to_check, urls_to_find, starts,
                                     request) :
                   SeedValidated(r, request, TRUE)
             /\ \A r \in parse_seed_error(urls_to_check, urls_to_find, starts,
                                           request) :
                   SeedValidated(r, request, FALSE)
       /\ \A request \in SeedRequests(inflight) :
             inflight' = inflight (-) SetToBag({request}) =>
                LET r == [check |-> urls_to_check', find |-> urls_to_find']
                IN \/ SeedValidated(r, request, TRUE)
                   \/ SeedValidated(r, request, FALSE)
       /\ \A request \in SeedRequests(failing) :
             failing' = failing (-) SetToBag({request}) =>
                SeedValidated([check |-> urls_to_check', find |-> urls_to_find'],
                              request, FALSE)]_vars

C15_Witness ==
    /\ rows = <<<<A1, A0, 0>>, <<B1s, B1s, 1>>>>
    /\ B1 \in DOMAIN starts
    /\ A1 \in DOMAIN starts
    /\ urls_to_check["b.com"] = {}
    /\ urls_to_find["b.com"] = {B1}
    /\ urls_to_check["a.com"] = {}
    /\ urls_to_find["a.com"] = {}
    /\ Exploratory(accepted, "a.com") = {}

\* the responses a download of request may end with, and their links
DomainResponses(request) ==
    UNION {{[response |-> [url |-> url, request |-> request],
             links    |-> get_links(page_hrefs, hrefs)] :
               url \in ResponseUrls(request), page_hrefs \in PageHrefs(hrefs)} :
           hrefs \in SeqsUpTo(LinkUrls, MaxLinks)}

\* domain d is complete
Complete(check, find, d) == check[d] = {} /\ find[d] = {}

\* out is what a callback yielded, in order, and find the sets to_find at its
\* start: no request is yielded for a domain that is complete by then
RECURSIVE NoneAfterCompletion(_, _, _)
NoneAfterCompletion(find, out, i) ==
    IF i > Len(out) THEN TRUE
    ELSE IF "callback" \in DOMAIN out[i]
    THEN /\ ~Complete(urls_to_check, find, out[i].meta.netloc)
         /\ NoneAfterCompletion(find, out, i + 1)
    ELSE NoneAfterCompletion(handle_ground_truth(find, out[i]).find, out, i + 1)

\* C16: whatever response a request in flight gets, parse_domain yields no
\* request for a domain that is complete at the moment of the yield, also
\* when the domain becomes complete between two links of the response.
C16_NoneAfterCompletion ==
    \A request \in BagToSet(inflight) :
        request.callback = "parse_domain" =>
            \A e \in DomainResponses(request) :
                NoneAfterCompletion(
                    urls_to_find,
                    parse_domain(urls_to_find, e.response, e.links).out, 1)

\* C17: with MAX_REQUESTS_PER_NETLOC unset or 0 the middleware is not
\* installed: no request is ignored, none is counted as dropped and nothing is
\* counted per domain, however many requests there are.
C17_DisabledWhenZero ==
    max_requests = 0 =>
        /\ \A i \in DOMAIN verdicts : ~verdicts[i].ignored
        /\ mw_dropped = 0
        /\ \A n \in Netlocs : requests_num[n] = 0 /\ Passed(n) = Ordinal(n, Len(verdicts))

C17_Witness ==
    /\ max_requests = 0
    /\ Len(verdicts) = MaxAdm
    /\ \A i \in DOMAIN verdicts : verdicts[i].netloc = "a.com"
    /\ Passed("a.com") = MaxAdm

\* requests the spider hands to the scheduler: those of the rows and those
\* accepted so far (a second copy of which is a duplicate unless dont_filter)
Candidates ==
    {SeedRequest(rows[i][1]) : i \in DOMAIN rows} \cup BagToSet(accepted)

\* C18: enqueue_request returns False for a request that is not dont_filter
\* and whose fingerprint the dupefilter has seen, and then leaves the log,
\* the frontier, the dupefilter and the request with its RequestInfo as they
\* were; any other request, a dont_filter one with a seen fingerprint
\* included, is accepted and queued.
C18_DuplicateLeavesNoTrace ==
    \A request \in Candidates :
        LET r == enqueue_request(log_on, Sched, request)
            after == enqueued_request(log_on, Sched, request)
        IN IF ~request.dont_filter /\ request.url \in seen
           THEN /\ r.ok = FALSE
                /\ r.log = log
                /\ r.slots = slots
                /\ r.pqueues = pqueues
                /\ r.ids = ids
                /\ r.seen = seen
                /\ r.accepted = accepted
                /\ after = request
           ELSE /\ r.ok = TRUE
                /\ r.accepted = accepted (+) SetToBag({request})
                /\ \E pl \in QueuedPlaces(r.pqueues) :
                      QueuedAt(r.pqueues, pl) = after
                /\ RRLen(r.pqueues) = RRLen(pqueues) + 1

C18_Witness ==
    /\ log_on
    /\ \E request \in BagToSet(accepted) :
          /\ ~request.dont_filter
          /\ "request_info" \in DOMAIN request.meta
          /\ request.url \in seen
          /\ log # EmptyBag
    /\ \E request \in BagToSet(accepted) :
          /\ request.dont_filter
          /\ request.url \in seen

\* the exploratory crawl of domain d was started: the scheduler has accepted
\* an exploratory request of it
Started(d) == Exploratory(accepted, d) # {}

\* C19: exploratory requests of a domain are emitted by one answer to its seed
\* requests only, whatever rows the urls file has and in whatever order the
\* seeds respond or fail, and that call emits one request per distinct
\* (start_url, start_depth) pair of the seeds of the domain that responded.
C19_OneTransition ==
    [][\A d \in Netlocs :
          (AnswersSeed(d) /\ Emitted(d) # {<<>>}) =>
              /\ ~Started(d)
              /\ \A out \in Emitted(d) :
                    LET pairs == {starts'[u] : u \in Reached(d)'}
                    IN /\ Len(out) = Cardinality(pairs)
                       /\ {out[i] : i \in DOMAIN out}
                             = {StartRequest(pr, d) : pr \in pairs}]_vars

\* the <<slot, priority>> pairs that have a DiskQueue
Stores(pqs) == UNION {{<<s, p>> : p \in DOMAIN pqs[s]} : s \in DOMAIN pqs}

StorePath(pqs, st) == pqs[st[1]][st[2]].path

\* each key is in the rotation at most once, the keys of the rotation are
\* those of the partition map, and the stores have paths of their own, with
\* suffixes the counter has already passed
RotationMatchesMap ==
    /\ \A i, j \in DOMAIN slots : slots[i] = slots[j] => i = j
    /\ {slots[i] : i \in DOMAIN slots} = DOMAIN pqueues
    /\ \A st \in Stores(pqueues) :
          /\ StorePath(pqueues, st)[1] = st[2]
          /\ StorePath(pqueues, st)[2] \in 0..(ids - 1)
          /\ \A su \in Stores(pqueues) \ {st} :
                StorePath(pqueues, st) # StorePath(pqueues, su)

\* C20: under push, pop and close each partition key occurs at most once in
\* the rotation and the rotation has the keys of the partition map; the
\* counter of the path suffixes never goes back, and a store that a step
\* creates gets the counter's value as its suffix and moves the counter on,
\* so that no two stores ever have the same path, stores of one base path
\* included.
C20_RotationAndStorePaths ==
    [][/\ RotationMatchesMap
       /\ RotationMatchesMap'
       /\ ids' >= ids
       /\ \A st \in Stores(pqueues') :
             (st \notin Stores(pqueues)
                 \/ StorePath(pqueues', st) # StorePath(pqueues, st)) =>
                /\ StorePath(pqueues', st) = <<st[2], ids>>
                /\ ids' = ids + 1]_vars

C20_Witness ==
    /\ phase = "closed"
    /\ Len(slots) = 2
    /\ \E st, su \in Stores(pqueues) :
          /\ st[1] # su[1]
          /\ st[2] = su[2]
          /\ StorePath(pqueues, st)[2] = ids - 1
          /\ StorePath(pqueues, su)[2] = ids - 2
    /\ ids = 4

=============================================================================
